---- MODULE Spec2Model ----
(***************************************************************************)
(* Model of the CRI-O runtime client of chaosblade-exec-cri:               *)
(*   exec/container/crio/crio.go        (CRIClient and its operations)     *)
(*   exec/container/cri-o/crio-linux.go (the nsexec helper bridge)         *)
(* The client is one sequential caller; the runtime, the endpoint and the  *)
(* helper process are the environment and answer nondeterministically.     *)
(***************************************************************************)
EXTENDS Integers, Sequences, FiniteSets, TLC

\* ------------------------------------------------------------------ bounds
\* pids the runtime hands out are 1..MaxPid
MaxPid == 2
\* containers one run may create (bounds the identifier counter)
MaxCreate == 1
\* longest container listing drawn for the label-selector lookup
MaxContainers == 2

\* ------------------------------------------------------------- vocabulary
NoId == 0
NoPid == 0
NameLabel == "io.kubernetes.container.name"
LabelKeys == {NameLabel, "app"}
LabelValues == {"web", "db"}
EmptyLabels == [k \in {} |-> ""]
\* every label mapping over LabelKeys (a Go map[string]string that is not nil)
LabelMaps == UNION {[D -> LabelValues] : D \in SUBSET LabelKeys}
\* contents of a captured output or error stream
OutTexts == {"", "out"}
ErrTexts == {"", "warn"}
\* one run of the helper: runErr is cmd.Run()'s error ("" is nil)
Runs == [runErr : {"", "exit status 1"}, out : OutTexts, errs : ErrTexts]
NoRun == [runErr |-> "", out |-> "", errs |-> ""]

OKCode == "OK"
ContainerExecFailed == "ContainerExecFailed"
CreateContainerFailed == "CreateContainerFailed"

NoInfo == [id |-> NoId, name |-> "", hasLabels |-> FALSE, labels |-> EmptyLabels]

\* what an operation hands back to its caller; failed is err != nil, and an
\* error built by errors.New("") is failed with an empty msg
Result(failed, msg, code, id, pid, out, info) ==
  [failed |-> failed, msg |-> msg, code |-> code, id |-> id, pid |-> pid,
   out |-> out, info |-> info]

NoRet == Result(FALSE, "", "", NoId, NoPid, "", NoInfo)

\* ------------------------------------------------------------ conversions
\* int32(float64) of an integral JSON number below 2^31 in magnitude, which
\* is every pid a runtime reports: float64 holds it exactly and the
\* conversion keeps it
ToInt32(n) == n
\* uint32(int32): a negative value wraps around by 2^32
ToUint32(n) == IF n >= 0 THEN n ELSE (n + 2147483647) + 2147483647 + 2

\* ----------------------------------------------- crio.go: pure functions
convertContainerInfo(status) ==
  [id |-> status.id, name |-> status.name, hasLabels |-> status.hasLabels,
   labels |-> status.labels]

convertContainerInfo2(containerDetail) ==
  [id |-> containerDetail.id, name |-> containerDetail.name,
   hasLabels |-> containerDetail.hasLabels, labels |-> containerDetail.labels]

matchLabels_AnyKey(container, labelSelector) ==
  IF ~container.hasLabels THEN FALSE
  ELSE \/ DOMAIN labelSelector = {}
       \/ \E key \in DOMAIN labelSelector :
            /\ key \in DOMAIN container.labels
            /\ container.labels[key] = labelSelector[key]

matchLabels(container, labelSelector) ==
  IF ~container.hasLabels THEN FALSE
  ELSE \A key \in DOMAIN labelSelector :
         /\ key \in DOMAIN container.labels
         /\ container.labels[key] = labelSelector[key]

\* the shapes response.Info can take (a map[string]string, possibly nil), by
\* what info["info"] holds
InfoShapes == {"nilInfo", "noInfoKey", "invalid", "nonObject", "null",
               "noPid", "pidString", "pidNumber"}

\* json.Unmarshal([]byte(info["info"]), &dataMap), dataMap a
\* map[string]interface{}: err, and the dynamic type of dataMap["pid"]
Unmarshal(shape) ==
  CASE shape = "noInfoKey" -> [err |-> TRUE, pidType |-> "absent"]
    [] shape = "invalid"   -> [err |-> TRUE, pidType |-> "absent"]
    [] shape = "nonObject" -> [err |-> TRUE, pidType |-> "absent"]
    [] shape = "null"      -> [err |-> FALSE, pidType |-> "absent"]
    [] shape = "noPid"     -> [err |-> FALSE, pidType |-> "absent"]
    [] shape = "pidString" -> [err |-> FALSE, pidType |-> "string"]
    [] shape = "pidNumber" -> [err |-> FALSE, pidType |-> "float64"]

\* GetPidById on a status response: panic is the failed type assertion
\* dataMap["pid"].(float64)
PidResult(panic, pid, failed, msg, code) ==
  [panic |-> panic, pid |-> pid, failed |-> failed, msg |-> msg, code |-> code]

GetPidById(response) ==
  IF response.err
  THEN PidResult(FALSE, -1, TRUE, "failed to get container status and info", ContainerExecFailed)
  ELSE IF response.info = "nilInfo"
  THEN PidResult(FALSE, -1, TRUE, "container info is nil", ContainerExecFailed)
  ELSE LET dataMap == Unmarshal(response.info) IN
       IF dataMap.err
       THEN PidResult(FALSE, -1, TRUE, "json.Unmarshal container info error", ContainerExecFailed)
       ELSE IF dataMap.pidType # "float64"
       THEN PidResult(TRUE, NoPid, FALSE, "", "")
       ELSE PidResult(FALSE, ToInt32(response.pid), FALSE, "", OKCode)

GetContainerById(response) ==
  IF response.err
  THEN Result(TRUE, "failed to get container status", ContainerExecFailed, NoId, NoPid, "", NoInfo)
  ELSE IF ~response.hasStatus
  THEN Result(TRUE, "no response status found", ContainerExecFailed, NoId, NoPid, "", NoInfo)
  ELSE Result(FALSE, "", OKCode, NoId, NoPid, "", convertContainerInfo(response.status))

\* ------------------------------------------ crio-linux.go: the helper bridge
crioExecContainer_OutFirst(run) ==
  IF run.runErr # "" THEN [out |-> "", failed |-> TRUE, msg |-> run.runErr]
  ELSE IF Len(run.out) > 0 THEN [out |-> run.out, failed |-> FALSE, msg |-> ""]
  ELSE [out |-> run.errs, failed |-> FALSE, msg |-> ""]

crioExecContainer(run) ==
  IF run.runErr # "" THEN [out |-> "", failed |-> TRUE, msg |-> run.runErr]
  ELSE IF Len(run.errs) > 0 THEN [out |-> run.errs, failed |-> FALSE, msg |-> ""]
  ELSE [out |-> run.out, failed |-> FALSE, msg |-> ""]

\* openErr is os.Open(srcFile)'s error; stage2 is read only when stage 1 passed
crioCopyToContainer(openErr, stage1, stage2) ==
  IF openErr # "" THEN [failed |-> TRUE, msg |-> openErr, ran |-> 0]
  ELSE IF stage1.runErr # "" THEN [failed |-> TRUE, msg |-> stage1.runErr, ran |-> 1]
  ELSE IF Len(stage1.errs) # 0 THEN [failed |-> TRUE, msg |-> stage1.errs, ran |-> 1]
  ELSE IF stage2.runErr # "" THEN [failed |-> TRUE, msg |-> stage2.runErr, ran |-> 2]
  ELSE IF Len(stage2.errs) # 0 THEN [failed |-> TRUE, msg |-> stage1.errs, ran |-> 2]
  ELSE [failed |-> FALSE, msg |-> "", ran |-> 2]

GetContainerByLabelSelector(listResponse, labels) ==
  IF listResponse.err
  THEN Result(TRUE, "failed to list containers", ContainerExecFailed, NoId, NoPid, "", NoInfo)
  ELSE LET filteredContainers ==
             SelectSeq(listResponse.containers, LAMBDA c : matchLabels(c, labels))
       IN IF Len(filteredContainers) = 0
          THEN Result(TRUE, "no containers found", ContainerExecFailed, NoId, NoPid, "", NoInfo)
          ELSE Result(FALSE, "", OKCode, NoId, NoPid, "",
                      convertContainerInfo2(filteredContainers[1]))

\* container.Labels[key]: a missing key, or a nil map, reads as ""
LabelOf(container, key) ==
  IF container.hasLabels /\ key \in DOMAIN container.labels
  THEN container.labels[key] ELSE ""

\* the scan of GetContainerByName: the id of the first container whose name
\* label equals containerName, "" (NoId) when there is none
ScanByName(containers, containerName) ==
  LET hits == {i \in 1..Len(containers) : LabelOf(containers[i], NameLabel) = containerName}
  IN IF hits = {} THEN NoId
     ELSE containers[CHOOSE i \in hits : \A j \in hits : i <= j].id

GetContainerByNameStatus(response) ==
  IF response.err
  THEN Result(TRUE, "no statusResponse found, error", ContainerExecFailed, NoId, NoPid, "", NoInfo)
  ELSE IF ~response.hasStatus
  THEN Result(TRUE, "no statusResponse found", ContainerExecFailed, NoId, NoPid, "", NoInfo)
  ELSE Result(FALSE, "", OKCode, NoId, NoPid, "", convertContainerInfo(response.status))

\* ExecuteAndRemove's returns after each stage; next is TRUE when it goes on
CreateContainerReturn(err, msg, id) ==
  IF err THEN Result(TRUE, msg, "", NoId, NoPid, "", NoInfo)
  ELSE Result(FALSE, "", "", id, NoPid, "", NoInfo)

CreateFailedReturn ==
  Result(TRUE, "CreateContainer error", CreateContainerFailed, NoId, NoPid, "", NoInfo)

StartReturn_KeepId(err, id) ==
  [next |-> ~err,
   ret |-> Result(TRUE, "StartContainer error", CreateContainerFailed, id, NoPid, "", NoInfo)]

StartReturn(err, id) ==
  [next |-> ~err,
   ret |-> Result(TRUE, "StartContainer error", CreateContainerFailed, NoId, NoPid, "", NoInfo)]

ExecSyncReturn_IgnoreExit(err, exitCode, id) ==
  [next |-> ~err,
   ret |-> Result(TRUE, "failed to execute command in container", CreateContainerFailed,
                  id, NoPid, "", NoInfo)]

ExecSyncReturn_SameCode(err, exitCode, id) ==
  [next |-> ~err /\ exitCode = 0,
   ret |-> Result(TRUE, "failed to execute command in container", CreateContainerFailed,
                  id, NoPid, "", NoInfo)]

ExecSyncReturn(err, exitCode, id) ==
  IF err
  THEN [next |-> FALSE,
        ret |-> Result(TRUE, "failed to execute command in container",
                       CreateContainerFailed, id, NoPid, "", NoInfo)]
  ELSE IF exitCode # 0
  THEN [next |-> FALSE,
        ret |-> Result(TRUE, "command in container failed", ContainerExecFailed,
                       id, NoPid, "", NoInfo)]
  ELSE [next |-> TRUE, ret |-> NoRet]

StopReturn(err, id) ==
  [next |-> ~err,
   ret |-> Result(TRUE, "command in container failed", ContainerExecFailed, id, NoPid, "", NoInfo)]

RemoveReturn(err, id) ==
  IF err
  THEN Result(TRUE, "failed to remove container", ContainerExecFailed, id, NoPid, "", NoInfo)
  ELSE Result(FALSE, "", OKCode, id, NoPid, "execResponse", NoInfo)

\* the context GetContainerByLabelSelector lists under
LabelSelectorCtx_Caller == "caller"

LabelSelectorCtx == "c.Ctx"

\* ------------------------------------------------------------------ state
VARIABLES
  endpoint,     \* the runtime's socket: "up", "down" or "rejected" (dial error)
  conn,         \* the connection: CONNECTING, TRANSIENT_FAILURE, READY, FAILED
  newErr,       \* NewClient's error message, "" when nil
  ctxDone,      \* c.Cancel has been called: c.Ctx is cancelled
  listing,      \* the runtime's containers, in listing order
  nextId,       \* the identifier the runtime gives the next created container
  op,           \* the operation in progress (or last finished)
  pc,           \* its next step: idle, an RPC or helper stage, done, panic
  argCtx,       \* the context the call's RPCs run under: "c.Ctx", or "caller"
                \* (another, live context passed as the ctx argument)
  argSel,       \* the label selector argument
  argName,      \* the containerName argument
  containerId,  \* the containerId argument or local
  processId,    \* the pid resolved by GetPidById in this call
  sinceCancel,  \* the call began after c.Ctx was cancelled
  cancelHit,    \* c.Ctx was cancelled while the call was in flight
  calls,        \* the RPCs this call has issued, in order
  resp,         \* the last status response of this call
  createdId,    \* the identifier in this call's create response
  helperPid,    \* the pid handed to the helper in this call
  prevPid,      \* the pid resolved by the most recent earlier call
  openErr,      \* os.Open's error in this call's copy
  run1,         \* the helper's first run in this call
  run2,         \* the helper's second run in this call
  ret           \* what the call returned

vars == <<endpoint, conn, newErr, ctxDone, listing, nextId, op, pc, argCtx, argSel,
          argName, containerId, processId, sinceCancel, cancelHit, calls, resp,
          createdId, helperPid, prevPid, openErr, run1, run2, ret>>

Container(id, name, hasLabels, labels, pid, state) ==
  [id |-> id, name |-> name, hasLabels |-> hasLabels, labels |-> labels,
   pid |-> pid, state |-> state]

BaseContainer == Container(1, "web", TRUE, [k \in {NameLabel} |-> "web"], 1, "running")

Ids(containers) == {containers[i].id : i \in 1..Len(containers)}

ById(containers, id) ==
  containers[CHOOSE i \in 1..Len(containers) : containers[i].id = id]

Call(rpc, err, exitCode) == [rpc |-> rpc, err |-> err, exitCode |-> exitCode]

StatusResponse(err, hasStatus, status, info, pid) ==
  [err |-> err, hasStatus |-> hasStatus, status |-> status, info |-> info, pid |-> pid]

NoResp == StatusResponse(FALSE, FALSE, NoInfo, "nilInfo", NoPid)

\* an RPC under a cancelled context returns an error
RpcDown(ctx) == ctx = "c.Ctx" /\ ctxDone

\* the err outcomes of an RPC that names no container
RpcErrs(ctx) == IF RpcDown(ctx) THEN {TRUE} ELSE BOOLEAN

\* the err outcomes of an RPC on container id: the runtime knows only listed ones
RpcErrsOn(ctx, id) ==
  IF RpcDown(ctx) \/ id \notin Ids(listing) THEN {TRUE} ELSE BOOLEAN

\* the responses the runtime can give to a status request for id; a caller
\* reads either Status or Info, and the field it does not read is left out
StatusResponses(ctx, id, readsInfo) ==
  {StatusResponse(TRUE, FALSE, NoInfo, "nilInfo", NoPid)} \cup
  IF FALSE \notin RpcErrsOn(ctx, id) THEN {}
  ELSE LET c == ById(listing, id) IN
       IF readsInfo
       THEN {StatusResponse(FALSE, FALSE, NoInfo, shape, c.pid) : shape \in InfoShapes}
       ELSE {StatusResponse(FALSE, hasStatus,
                            IF hasStatus THEN convertContainerInfo(c) ELSE NoInfo,
                            "nilInfo", NoPid) : hasStatus \in BOOLEAN}

\* ---------------------------------------------------------------- NewClient
\* ctx.Err() while grpc.DialContext blocks: ctx comes from context.WithCancel
\* alone, carries no deadline, and cancel is held by nobody before the return
DialCtxErr == "nil"

NewClientError(dialErr) ==
  IF DialCtxErr = "DeadlineExceeded"
  THEN "failed to connect to crio endpoint: context deadline exceeded"
  ELSE "failed to connect to crio endpoint: dial error"

\* one connection attempt of the blocking dial (grpc.WithBlock)
DialAttempt ==
  /\ conn = "CONNECTING"
  /\ conn' = CASE endpoint = "up" -> "READY"
               [] endpoint = "down" -> "TRANSIENT_FAILURE"
               [] endpoint = "rejected" -> "FAILED"
  /\ newErr' = IF endpoint = "rejected" THEN NewClientError("dial error") ELSE newErr
  /\ UNCHANGED <<endpoint, ctxDone, listing, nextId, op, pc, argCtx, argSel, argName,
                 containerId, processId, sinceCancel, cancelHit, calls, resp,
                 createdId, helperPid, prevPid, openErr, run1, run2, ret>>

\* after a failed attempt the dial waits and tries again, unless ctx is done
DialBackoff ==
  /\ conn = "TRANSIENT_FAILURE"
  /\ conn' = IF DialCtxErr # "nil" THEN "FAILED" ELSE "CONNECTING"
  /\ newErr' = IF DialCtxErr # "nil" THEN NewClientError(DialCtxErr) ELSE newErr
  /\ UNCHANGED <<endpoint, ctxDone, listing, nextId, op, pc, argCtx, argSel, argName,
                 containerId, processId, sinceCancel, cancelHit, calls, resp,
                 createdId, helperPid, prevPid, openErr, run1, run2, ret>>

\* environment: the runtime's socket starts to accept connections
EndpointUp ==
  /\ endpoint = "down"
  /\ endpoint' = "up"
  /\ UNCHANGED <<conn, newErr, ctxDone, listing, nextId, op, pc, argCtx, argSel, argName,
                 containerId, processId, sinceCancel, cancelHit, calls, resp,
                 createdId, helperPid, prevPid, openErr, run1, run2, ret>>

InFlight == pc \notin {"idle", "done", "panic"}

\* the holder of the client calls c.Cancel
Cancel ==
  /\ conn = "READY"
  /\ pc # "panic"
  /\ ~ctxDone
  /\ ctxDone' = TRUE
  /\ cancelHit' = InFlight
  /\ UNCHANGED <<endpoint, conn, newErr, listing, nextId, op, pc, argCtx, argSel, argName,
                 containerId, processId, sinceCancel, calls, resp,
                 createdId, helperPid, prevPid, openErr, run1, run2, ret>>

\* environment: a running container's primary process is replaced
Restart ==
  /\ conn = "READY"
  /\ pc # "panic"
  /\ \E i \in 1..Len(listing), p \in 1..MaxPid :
       /\ listing[i].state = "running"
       /\ listing[i].pid # p
       /\ listing' = [listing EXCEPT ![i].pid = p]
  /\ UNCHANGED <<endpoint, conn, newErr, ctxDone, nextId, op, pc, argCtx, argSel, argName,
                 containerId, processId, sinceCancel, cancelHit, calls, resp,
                 createdId, helperPid, prevPid, openErr, run1, run2, ret>>

\* ------------------------------------------------------------ call entries
CtxArgs == {"c.Ctx", "caller"}
TargetIds == 1..(1 + MaxCreate)

Begin(o, first, ctx, id, sel, name) ==
  /\ conn = "READY"
  /\ pc \in {"idle", "done"}
  /\ op' = o
  /\ pc' = first
  /\ argCtx' = ctx
  /\ containerId' = id
  /\ argSel' = sel
  /\ argName' = name
  /\ sinceCancel' = ctxDone
  /\ cancelHit' = FALSE
  /\ prevPid' = IF processId > 0 THEN processId ELSE prevPid
  /\ processId' = NoPid
  /\ calls' = <<>>
  /\ resp' = NoResp
  /\ createdId' = NoId
  /\ helperPid' = NoPid
  /\ openErr' = ""
  /\ run1' = NoRun
  /\ run2' = NoRun
  /\ ret' = NoRet
  /\ UNCHANGED <<endpoint, conn, newErr, ctxDone, listing, nextId>>

CallGetContainerById ==
  \E ctx \in CtxArgs, id \in TargetIds :
    Begin("GetContainerById", "ContainerStatus", ctx, id, EmptyLabels, "")

CallGetPidById ==
  \E ctx \in CtxArgs, id \in TargetIds :
    Begin("GetPidById", "ContainerStatus", ctx, id, EmptyLabels, "")

CallGetContainerByName ==
  \E ctx \in CtxArgs, name \in LabelValues :
    Begin("GetContainerByName", "ListContainers", ctx, NoId, EmptyLabels, name)

CallGetContainerByLabelSelector ==
  \E sel \in LabelMaps :
    Begin("GetContainerByLabelSelector", "ListContainers", LabelSelectorCtx, NoId, sel, "")

CallRemoveContainer ==
  \E ctx \in CtxArgs, id \in TargetIds :
    Begin("RemoveContainer", "StopContainer", ctx, id, EmptyLabels, "")

CallCopyToContainer ==
  \E ctx \in CtxArgs, id \in TargetIds :
    Begin("CopyToContainer", "ContainerStatus", ctx, id, EmptyLabels, "")

CallExecContainer ==
  \E ctx \in CtxArgs, id \in TargetIds :
    Begin("ExecContainer", "ContainerStatus", ctx, id, EmptyLabels, "")

CallCreateContainer ==
  /\ nextId <= 1 + MaxCreate
  /\ \E ctx \in CtxArgs :
       Begin("CreateContainer", "ImageStatus", ctx, NoId, EmptyLabels, "db")

CallExecuteAndRemove ==
  /\ nextId <= 1 + MaxCreate
  /\ \E ctx \in CtxArgs :
       Begin("ExecuteAndRemove", "ImageStatus", ctx, NoId, EmptyLabels, "db")

\* ------------------------------------------------------------- RPC stages
\* runtimeService.ContainerStatus, and what each caller does with the response
ContainerStatus ==
  /\ pc = "ContainerStatus"
  /\ \E r \in StatusResponses(argCtx, containerId,
                              op \in {"GetPidById", "ExecContainer", "CopyToContainer"}) :
       /\ resp' = r
       /\ calls' = Append(calls, Call("ContainerStatus", r.err, 0))
       /\ CASE op = "GetContainerById" ->
                 /\ ret' = GetContainerById(r)
                 /\ pc' = "done"
                 /\ UNCHANGED processId
            [] op = "GetContainerByName" ->
                 /\ ret' = GetContainerByNameStatus(r)
                 /\ pc' = "done"
                 /\ UNCHANGED processId
            [] op = "GetPidById" ->
                 LET g == GetPidById(r) IN
                 /\ pc' = IF g.panic THEN "panic" ELSE "done"
                 /\ ret' = IF g.panic THEN NoRet
                           ELSE Result(g.failed, g.msg, g.code, NoId, g.pid, "", NoInfo)
                 /\ processId' = IF g.panic \/ g.failed THEN NoPid ELSE g.pid
            [] op \in {"ExecContainer", "CopyToContainer"} ->
                 LET g == GetPidById(r) IN
                 /\ pc' = IF g.panic THEN "panic"
                          ELSE IF g.failed THEN "done"
                          ELSE IF op = "ExecContainer" THEN "nsexec" ELSE "nscopy"
                 /\ ret' = IF ~g.panic /\ g.failed
                           THEN Result(TRUE, g.msg, "", NoId, NoPid, "", NoInfo)
                           ELSE NoRet
                 /\ processId' = IF g.panic \/ g.failed THEN NoPid ELSE g.pid
  /\ UNCHANGED <<endpoint, conn, newErr, ctxDone, listing, nextId, op, argCtx, argSel,
                 argName, containerId, sinceCancel, cancelHit, createdId, helperPid,
                 prevPid, openErr, run1, run2>>

\* runtimeService.ListContainers
ListContainers ==
  /\ pc = "ListContainers"
  /\ \E err \in RpcErrs(argCtx) :
       /\ calls' = Append(calls, Call("ListContainers", err, 0))
       /\ CASE op = "GetContainerByLabelSelector" ->
                 /\ ret' = GetContainerByLabelSelector(
                             [err |-> err, containers |-> listing], argSel)
                 /\ pc' = "done"
                 /\ UNCHANGED containerId
            [] op = "GetContainerByName" ->
                 LET containerID == ScanByName(listing, argName) IN
                 IF err
                 THEN /\ ret' = Result(TRUE, "failed to list containers",
                                       ContainerExecFailed, NoId, NoPid, "", NoInfo)
                      /\ pc' = "done"
                      /\ UNCHANGED containerId
                 ELSE IF containerID = NoId
                 THEN /\ ret' = Result(TRUE, "container with name not found",
                                       ContainerExecFailed, NoId, NoPid, "", NoInfo)
                      /\ pc' = "done"
                      /\ UNCHANGED containerId
                 ELSE /\ containerId' = containerID
                      /\ pc' = "ContainerStatus"
                      /\ UNCHANGED ret
  /\ UNCHANGED <<endpoint, conn, newErr, ctxDone, listing, nextId, op, argCtx, argSel,
                 argName, processId, sinceCancel, cancelHit, resp, createdId, helperPid,
                 prevPid, openErr, run1, run2>>

SetState(containers, id, state) ==
  [i \in 1..Len(containers) |->
     IF containers[i].id = id
     THEN [containers[i] EXCEPT !.state = state,
                                !.pid = IF state = "exited" THEN NoPid ELSE @]
     ELSE containers[i]]

\* runtimeService.StopContainer, in RemoveContainer and in ExecuteAndRemove
StopContainer ==
  /\ pc = "StopContainer"
  /\ \E err \in RpcErrsOn(argCtx, containerId) :
       /\ calls' = Append(calls, Call("StopContainer", err, 0))
       /\ listing' = IF err THEN listing ELSE SetState(listing, containerId, "exited")
       /\ IF op = "RemoveContainer"
          THEN /\ pc' = IF err THEN "done" ELSE "RemoveContainer"
               /\ ret' = IF err
                         THEN Result(TRUE, "failed to stop container", "", NoId, NoPid, "", NoInfo)
                         ELSE ret
          ELSE LET r == StopReturn(err, containerId) IN
               /\ pc' = IF r.next THEN "RemoveContainer" ELSE "done"
               /\ ret' = IF r.next THEN ret ELSE r.ret
  /\ UNCHANGED <<endpoint, conn, newErr, ctxDone, nextId, op, argCtx, argSel, argName,
                 containerId, processId, sinceCancel, cancelHit, resp, createdId,
                 helperPid, prevPid, openErr, run1, run2>>

\* runtimeService.RemoveContainer, in RemoveContainer and in ExecuteAndRemove
RemoveContainer ==
  /\ pc = "RemoveContainer"
  /\ \E err \in RpcErrsOn(argCtx, containerId) :
       /\ calls' = Append(calls, Call("RemoveContainer", err, 0))
       /\ listing' = IF err THEN listing
                     ELSE SelectSeq(listing, LAMBDA c : c.id # containerId)
       /\ pc' = "done"
       /\ ret' = IF op = "RemoveContainer"
                 THEN IF err
                      THEN Result(TRUE, "failed to remove container", "", NoId, NoPid, "", NoInfo)
                      ELSE NoRet
                 ELSE RemoveReturn(err, containerId)
  /\ UNCHANGED <<endpoint, conn, newErr, ctxDone, nextId, op, argCtx, argSel, argName,
                 containerId, processId, sinceCancel, cancelHit, resp, createdId,
                 helperPid, prevPid, openErr, run1, run2>>

\* config.Labels of the container configuration the caller passes
ConfigLabels == [k \in {"app"} |-> "db"]

\* imageService.ImageStatus: its error is overwritten by the pull's
ImageStatus ==
  /\ pc = "ImageStatus"
  /\ \E err \in RpcErrs(argCtx) :
       calls' = Append(calls, Call("ImageStatus", err, 0))
  /\ pc' = "PullImage"
  /\ UNCHANGED <<endpoint, conn, newErr, ctxDone, listing, nextId, op, argCtx, argSel,
                 argName, containerId, processId, sinceCancel, cancelHit, resp,
                 createdId, helperPid, prevPid, openErr, run1, run2, ret>>

\* imageService.PullImage
PullImage ==
  /\ pc = "PullImage"
  /\ \E err \in RpcErrs(argCtx) :
       /\ calls' = Append(calls, Call("PullImage", err, 0))
       /\ pc' = IF err THEN "done" ELSE "CreateContainer"
       /\ ret' = IF ~err THEN ret
                 ELSE IF op = "CreateContainer"
                 THEN CreateContainerReturn(TRUE, "failed to pull image", NoId)
                 ELSE CreateFailedReturn
  /\ UNCHANGED <<endpoint, conn, newErr, ctxDone, listing, nextId, op, argCtx, argSel,
                 argName, containerId, processId, sinceCancel, cancelHit, resp,
                 createdId, helperPid, prevPid, openErr, run1, run2>>

\* runtimeService.CreateContainer: the runtime registers the container
CreateContainer ==
  /\ pc = "CreateContainer"
  /\ \E err \in RpcErrs(argCtx) :
       /\ calls' = Append(calls, Call("CreateContainer", err, 0))
       /\ IF err
          THEN /\ pc' = "done"
               /\ ret' = IF op = "CreateContainer"
                         THEN CreateContainerReturn(TRUE, "failed to create container", NoId)
                         ELSE CreateFailedReturn
               /\ UNCHANGED <<listing, nextId, createdId, containerId>>
          ELSE /\ listing' = Append(listing,
                               Container(nextId, argName, TRUE, ConfigLabels, NoPid, "created"))
               /\ nextId' = nextId + 1
               /\ createdId' = nextId
               /\ containerId' = nextId
               /\ pc' = IF op = "CreateContainer" THEN "done" ELSE "StartContainer"
               /\ ret' = IF op = "CreateContainer"
                         THEN CreateContainerReturn(FALSE, "", nextId)
                         ELSE ret
  /\ UNCHANGED <<endpoint, conn, newErr, ctxDone, op, argCtx, argSel, argName,
                 processId, sinceCancel, cancelHit, resp, helperPid, prevPid,
                 openErr, run1, run2>>

\* runtimeService.StartContainer: the container's process gets a pid
StartContainer ==
  /\ pc = "StartContainer"
  /\ \E err \in RpcErrsOn(argCtx, containerId) :
       LET r == StartReturn(err, containerId) IN
       /\ calls' = Append(calls, Call("StartContainer", err, 0))
       /\ pc' = IF r.next THEN "ExecSync" ELSE "done"
       /\ ret' = IF r.next THEN ret ELSE r.ret
       /\ IF err THEN UNCHANGED listing
          ELSE \E p \in 1..MaxPid :
                 listing' = [i \in 1..Len(listing) |->
                               IF listing[i].id = containerId
                               THEN [listing[i] EXCEPT !.state = "running", !.pid = p]
                               ELSE listing[i]]
  /\ UNCHANGED <<endpoint, conn, newErr, ctxDone, nextId, op, argCtx, argSel, argName,
                 containerId, processId, sinceCancel, cancelHit, resp, createdId,
                 helperPid, prevPid, openErr, run1, run2>>

\* runtimeService.ExecSync: err, or the command's exit code
ExecSync ==
  /\ pc = "ExecSync"
  /\ \E err \in RpcErrsOn(argCtx, containerId), exitCode \in {0, 1} :
       LET r == ExecSyncReturn(err, exitCode, containerId) IN
       /\ err => exitCode = 0
       /\ calls' = Append(calls, Call("ExecSync", err, exitCode))
       /\ pc' = IF r.next THEN "StopContainer" ELSE "done"
       /\ ret' = IF r.next THEN ret ELSE r.ret
  /\ UNCHANGED <<endpoint, conn, newErr, ctxDone, listing, nextId, op, argCtx, argSel,
                 argName, containerId, processId, sinceCancel, cancelHit, resp,
                 createdId, helperPid, prevPid, openErr, run1, run2>>

\* ----------------------------------------------------------- helper stages
\* ExecContainer's call of crioExecContainer with the resolved pid
NsExec ==
  /\ pc = "nsexec"
  /\ \E run \in Runs :
       LET r == crioExecContainer(run) IN
       /\ run1' = run
       /\ helperPid' = processId
       /\ ret' = Result(r.failed, r.msg, "", NoId, NoPid, r.out, NoInfo)
  /\ pc' = "done"
  /\ UNCHANGED <<endpoint, conn, newErr, ctxDone, listing, nextId, op, argCtx, argSel,
                 argName, containerId, processId, sinceCancel, cancelHit, calls, resp,
                 createdId, prevPid, openErr, run2>>

OpenErrs == {"", "open: no such file"}

\* CopyToContainer's call of crioCopyToContainer with uint32(processId)
NsCopy ==
  /\ pc = "nscopy"
  /\ \E oe \in OpenErrs, stage1 \in Runs, stage2 \in Runs :
       LET r == crioCopyToContainer(oe, stage1, stage2) IN
       /\ openErr' = oe
       /\ run1' = IF r.ran >= 1 THEN stage1 ELSE NoRun
       /\ run2' = IF r.ran >= 2 THEN stage2 ELSE NoRun
       /\ helperPid' = IF r.ran >= 1 THEN ToUint32(processId) ELSE NoPid
       /\ ret' = Result(r.failed, r.msg, "", NoId, NoPid, "", NoInfo)
  /\ pc' = "done"
  /\ UNCHANGED <<endpoint, conn, newErr, ctxDone, listing, nextId, op, argCtx, argSel,
                 argName, containerId, processId, sinceCancel, cancelHit, calls, resp,
                 createdId, prevPid>>

\* ------------------------------------------------------------ specification
Idle ==
  /\ ctxDone = FALSE
  /\ nextId = 2
  /\ op = "none"
  /\ pc = "idle"
  /\ argCtx = "caller"
  /\ argSel = EmptyLabels
  /\ argName = ""
  /\ containerId = NoId
  /\ processId = NoPid
  /\ sinceCancel = FALSE
  /\ cancelHit = FALSE
  /\ calls = <<>>
  /\ resp = NoResp
  /\ createdId = NoId
  /\ helperPid = NoPid
  /\ prevPid = NoPid
  /\ openErr = ""
  /\ run1 = NoRun
  /\ run2 = NoRun
  /\ ret = NoRet

\* NewClient has just called grpc.DialContext
Init ==
  /\ endpoint \in {"up", "down", "rejected"}
  /\ conn = "CONNECTING"
  /\ newErr = ""
  /\ listing = <<BaseContainer>>
  /\ Idle

Next ==
  \/ DialAttempt \/ DialBackoff \/ EndpointUp
  \/ Cancel
  \/ CallGetContainerById \/ CallGetPidById \/ CallGetContainerByName
  \/ CallGetContainerByLabelSelector \/ CallRemoveContainer
  \/ CallCopyToContainer \/ CallExecContainer
  \/ CallCreateContainer \/ CallExecuteAndRemove
  \/ ContainerStatus \/ ListContainers \/ StopContainer \/ RemoveContainer
  \/ ImageStatus \/ PullImage \/ CreateContainer \/ StartContainer \/ ExecSync
  \/ NsExec \/ NsCopy

Spec == Init /\ [][Next]_vars

\* the dial loop runs without outside help; whether the endpoint comes up is
\* the environment's choice and is not assumed
LiveSpec == Spec /\ WF_vars(DialAttempt) /\ WF_vars(DialBackoff)

\* ---- pid resolution and the helper, with the container restarting in between
InitPid ==
  /\ endpoint = "up"
  /\ conn = "READY"
  /\ newErr = ""
  /\ listing = <<BaseContainer>>
  /\ Idle

NextPid ==
  \/ Restart
  \/ CallGetPidById \/ CallCopyToContainer \/ CallExecContainer
  \/ ContainerStatus \/ NsExec \/ NsCopy

SpecPid == InitPid /\ [][NextPid]_vars

\* ---- the label-selector lookup over every short listing
LabelShapes ==
  {[hasLabels |-> FALSE, labels |-> EmptyLabels]} \cup
  {[hasLabels |-> TRUE, labels |-> m] : m \in LabelMaps}

\* the listings of up to MaxContainers running containers, identifiers 1..n
ListingOf(f) ==
  [i \in 1..Len(f) |-> Container(i, "web", f[i].hasLabels, f[i].labels, 1, "running")]

Listings ==
  {ListingOf(f) : f \in UNION {[1..n -> LabelShapes] : n \in 0..MaxContainers}}

InitLabels ==
  /\ endpoint = "up"
  /\ conn = "READY"
  /\ newErr = ""
  /\ listing \in Listings
  /\ Idle

NextLabels == CallGetContainerByLabelSelector \/ ListContainers

SpecLabels == InitLabels /\ [][NextLabels]_vars

\* ================================================================== claims
Returned(o) == op = o /\ pc = "done"

\* C1: GetPidById returns a lookup failure (pid -1, an error, the
\* ContainerExecFailed code) and never crashes whenever the status response
\* has no info field, an info blob that does not decode, no pid key or a pid
\* that is not a number; it returns a pid with a nil error only for a numeric pid.
C1_PidLookupNeverCrashes ==
  (op = "GetPidById" /\ pc \in {"done", "panic"} /\ ~resp.err) =>
    /\ pc # "panic"
    /\ resp.info # "pidNumber" =>
         ret.failed /\ ret.pid = -1 /\ ret.code = ContainerExecFailed
    /\ ~ret.failed => resp.info = "pidNumber"

C3_NewClientReturns == <>(conn \in {"READY", "FAILED"})

\* C4: for every selector and every listing the runtime returns,
\* GetContainerByLabelSelector returns the first listed container that has
\* every selector key with an equal value, and fails iff there is none; a
\* container with no label mapping has no keys, so it satisfies the empty selector.
SubsetMatch(container, selector) ==
  \A key \in DOMAIN selector :
    key \in DOMAIN container.labels /\ container.labels[key] = selector[key]

C4_SelectorSubsetMatch ==
  (Returned("GetContainerByLabelSelector") /\ ~calls[1].err) =>
    LET M == {i \in 1..Len(listing) : SubsetMatch(listing[i], argSel)} IN
    /\ ret.failed <=> M = {}
    /\ M # {} => ret.info.id = listing[CHOOSE i \in M : \A j \in M : i <= j].id

\* what the lookup does instead: a container without a label mapping never
\* matches, not even the empty selector
LabelledSubsetMatchLemma ==
  (Returned("GetContainerByLabelSelector") /\ ~calls[1].err) =>
    LET M == {i \in 1..Len(listing) :
                listing[i].hasLabels /\ SubsetMatch(listing[i], argSel)} IN
    /\ ret.failed <=> M = {}
    /\ M # {} => ret.info.id = listing[CHOOSE i \in M : \A j \in M : i <= j].id

\* C5: when the upload stage exits zero with an empty error stream and the
\* extract stage exits zero with a non-empty error stream, CopyFile fails with
\* the extract stage's error stream as the message.
C5_ExtractStderrIsTheError ==
  (Returned("CopyToContainer") /\ processId # NoPid /\ openErr = ""
     /\ run1.runErr = "" /\ run1.errs = "" /\ run2.runErr = "" /\ run2.errs # "") =>
    ret.failed /\ ret.msg = run2.errs

\* C6: RunCommand returns the run error with empty output when the invocation
\* fails; otherwise the error stream, if not empty, as output with no error;
\* otherwise the standard output with no error.
C6_RunCommandThreeCases ==
  (Returned("ExecContainer") /\ processId # NoPid) =>
    IF run1.runErr # "" THEN ret.failed /\ ret.msg = run1.runErr /\ ret.out = ""
    ELSE IF run1.errs # "" THEN ~ret.failed /\ ret.out = run1.errs
    ELSE ~ret.failed /\ ret.out = run1.out

C6_Witness ==
  /\ Returned("ExecContainer")
  /\ processId # NoPid
  /\ run1.runErr = "" /\ run1.errs = "warn" /\ run1.out = "out"
  /\ ret.out = "warn" /\ ~ret.failed

\* C7: ExecuteAndRemove issues pull, create, start, exec-sync, stop, remove in
\* that order, each at most once and only after every earlier one succeeded
\* (exec-sync succeeds only with exit code 0); a failed exec is followed by
\* neither stop nor remove and the created container stays in the runtime.
StageOrder == <<"PullImage", "CreateContainer", "StartContainer", "ExecSync",
                "StopContainer", "RemoveContainer">>
Staged == SelectSeq(calls, LAMBDA c : c.rpc # "ImageStatus")
Succeeded(c) == ~c.err /\ c.exitCode = 0

C7_StagesInOrder ==
  op = "ExecuteAndRemove" =>
    /\ Len(Staged) <= Len(StageOrder)
    /\ \A i \in 1..Len(Staged) :
         /\ Staged[i].rpc = StageOrder[i]
         /\ i < Len(Staged) => Succeeded(Staged[i])
    /\ (Staged # <<>> /\ ~Succeeded(Staged[Len(Staged)])) => pc = "done" /\ ret.failed
    /\ (Len(Staged) = 4 /\ ~Succeeded(Staged[4])) =>
         /\ createdId \in Ids(listing)
         /\ ById(listing, createdId).state = "running"

C7_Witness ==
  /\ Returned("ExecuteAndRemove")
  /\ Len(Staged) = 4
  /\ ~Staged[4].err /\ Staged[4].exitCode = 1
  /\ createdId \in Ids(listing)

\* C8: when exec-sync returns no error but a nonzero exit code,
\* ExecuteAndRemove returns an error whose code is the execution-failure code,
\* not the code it returns when exec-sync itself errors, and the identifier
\* it returns is the one its own create call produced.
C8_NonzeroExitIsExecFailure ==
  (Returned("ExecuteAndRemove") /\ calls # <<>>
     /\ calls[Len(calls)].rpc = "ExecSync"
     /\ ~calls[Len(calls)].err /\ calls[Len(calls)].exitCode # 0) =>
    /\ ret.failed
    /\ ret.code = ContainerExecFailed
    /\ ret.code # ExecSyncReturn(TRUE, 0, createdId).ret.code
    /\ createdId # NoId
    /\ ret.id = createdId

C8_Witness ==
  /\ Returned("ExecuteAndRemove")
  /\ calls # <<>>
  /\ calls[Len(calls)] = Call("ExecSync", FALSE, 1)
  /\ ret.id = createdId

\* C9: every ExecContainer and CopyToContainer call issues its own status
\* request before the helper runs, hands the helper the pid that request
\* returned, and when the resolution fails returns the resolution error
\* without running the helper.
ResolutionFailed == resp.err \/ resp.info # "pidNumber"

C9_FreshPidOrError ==
  (op \in {"ExecContainer", "CopyToContainer"} /\ pc \in {"done", "panic"}) =>
    /\ Len(calls) = 1 /\ calls[1].rpc = "ContainerStatus"
    /\ helperPid # NoPid => (~resp.err /\ helperPid = resp.pid)
    /\ ResolutionFailed => (helperPid = NoPid /\ pc = "done" /\ ret.failed)

\* the part of C9 that does not depend on how a failed resolution ends: one
\* status request per call, and the helper gets the pid that request returned
FreshPidLemma ==
  (op \in {"ExecContainer", "CopyToContainer"} /\ pc \in {"done", "panic"}) =>
    /\ Len(calls) = 1 /\ calls[1].rpc = "ContainerStatus"
    /\ helperPid # NoPid => (~resp.err /\ helperPid = resp.pid)
    /\ resp.err => (helperPid = NoPid /\ pc = "done" /\ ret.failed)

\* a call whose helper got a pid other than the one an earlier call resolved
StalePidAvoided ==
  /\ Returned("ExecContainer")
  /\ prevPid # NoPid /\ helperPid # NoPid /\ helperPid # prevPid

\* C10: ExecuteAndRemove returns the created identifier exactly when start
\* succeeded and the empty identifier when create or start failed; after a
\* failed start the created container is in the runtime, neither stopped nor
\* removed, and its identifier is not returned.
StartCalls == SelectSeq(calls, LAMBDA c : c.rpc = "StartContainer")

C10_IdReturnedIffStarted ==
  Returned("ExecuteAndRemove") =>
    /\ (StartCalls # <<>> /\ ~StartCalls[1].err) => (ret.id = createdId /\ createdId # NoId)
    /\ (StartCalls = <<>> \/ StartCalls[1].err) => ret.id = NoId
    /\ (StartCalls # <<>> /\ StartCalls[1].err) =>
         /\ createdId \in Ids(listing)
         /\ ById(listing, createdId).state = "created"
         /\ calls[Len(calls)].rpc = "StartContainer"

C10_Witness ==
  /\ Returned("ExecuteAndRemove")
  /\ StartCalls # <<>> /\ StartCalls[1].err
  /\ createdId \in Ids(listing)
  /\ ret.id = NoId

====
